---- MODULE Spec2Model ----
(***************************************************************************)
(* WinScrape-Studio: the job lifecycle manager (src/core/job_manager.rs),  *)
(* the core facade (src/core/mod.rs), the scraping engine's URL loop       *)
(* (src/scraper/mod.rs) and the per-domain rate limiter                    *)
(* (src/scraper/rate_limiter.rs).                                          *)
(*                                                                         *)
(* Three specifications share the module:                                  *)
(*   Spec        the facade and the job manager                            *)
(*   SpecEngine  one ScrapingEngine running execute_scraping / preview     *)
(*   SpecRate    concurrent callers of RateLimiter::wait_for_domain        *)
(***************************************************************************)
EXTENDS Integers, Sequences, FiniteSets, TLC

(***************************************************************************)
(* Bounds of the model.                                                    *)
(***************************************************************************)
MaxJobs == 5
FacadeJobs == 4
MaxPermits == 3
MaxStartUrls == 2
MaxPatterns == 1
MaxPages == 2
MaxCallers == 3
TickMs == 250
MaxTime == 2500
MaxRows == 1
MaxLimit == 1
MaxRetries == 3
FaultyJobs == 3
MaxCacheTime == 96
MaxFields == 2
MaxBlocks == 2
MaxEngines == 2
MaxElements == 2
MaxFilters == 2

(***************************************************************************)
(* Program constants.                                                      *)
(***************************************************************************)
\* JobManager::new, "max_concurrent_jobs: 3"
max_concurrent_jobs == 3

\* enum JobPriority { Low = 0, Normal = 1, High = 2, Critical = 3 }
Low == 0
Normal == 1
High == 2
Critical == 3

JobIds == 1..(IF MaxJobs > FacadeJobs THEN MaxJobs ELSE FacadeJobs)
NoJob == 0

\* enum JobStatus, plus "None" for a job id that has no row in storage
JobStatus == {"Queued", "Running", "Completed", "Failed", "Cancelled"}
Terminal == {"Completed", "Failed", "Cancelled"}

(***************************************************************************)
(* Plans.  Three representative plans: a well-formed one, one with an      *)
(* empty item selector (rejected by DSLValidator::validate_rules) and one  *)
(* whose target domain is blocked (rejected by                             *)
(* SecurityManager::validate_dsl through DomainWhitelist).                 *)
(***************************************************************************)
GoodPlan == [item_selector |-> ".product", n_fields |-> 2, domain |-> "shop.example.com"]
NoSelectorPlan == [item_selector |-> "", n_fields |-> 2, domain |-> "shop.example.com"]
BlockedPlan == [item_selector |-> ".product", n_fields |-> 2, domain |-> "localhost"]
Plans == {GoodPlan, NoSelectorPlan, BlockedPlan}
NoPlan == [item_selector |-> "", n_fields |-> 0, domain |-> ""]

\* DSLValidator::validate: Ok iff TRUE (the checks of validate_target and
\* validate_rules that the three plans exercise)
validate(p) ==
    /\ p.domain # ""
    /\ p.item_selector # ""
    /\ p.n_fields > 0

\* SecurityManager::validate_dsl: Ok iff TRUE (domain whitelist check)
validate_dsl(p) == p.domain # "localhost"

\* impl Default for ScrapingConfig, "max_concurrent_requests: 5"
default_max_concurrent_requests == 5

\* generate_urls_from_pattern, "self.target.max_pages.unwrap_or(10)"
default_max_pages == 10

\* target.max_pages = None
NoMaxPages == 0

\* ScrapingEngine::create_http_config, "max_retries: 3"
default_max_retries == 3

\* WinScrapeStudio::generate_preview, "generate_preview(dsl, 10)"
preview_limit == 10

\* output.limit = None
NoLimit == -1

\* RateLimiter::new, "default_delay: Duration::from_millis(1000)"
default_delay == 1000

\* wait_for_domain, "Duration::from_secs(60)", in milliseconds
window_ms == 60000

Callers == 1..MaxCallers
Domains == {"a.example.com", "b.example.com"}

\* a domain without an entry in domain_limits
NoLimiter == [last_request |-> 0, request_count |-> 0, window_start |-> 0, delay |-> 0]

\* a caller to which no slot was granted yet
NotGranted == -1

VARIABLES
    stored,          \* storage: job id -> recorded status ("None": no row)
    plan,            \* storage: job id -> plan_yaml of the job row
    active_jobs,     \* JobManager.active_jobs (keys; see HandleStatus)
    job_queue,       \* JobManager.job_queue
    mgr_lock,        \* the operation holding job_manager's write lock
    scraping,        \* the job whose execute_scraping_job call is in progress
    pc,              \* per job: position of the execute_scraping call that created it
    engine_invoked,  \* jobs whose plan was handed to ScrapingEngine::execute_scraping
    previewed,       \* plans handed to ScrapingEngine::generate_preview
    cancel_called,   \* jobs on which cancel_job took the active-job branch
    faults,          \* whether storage calls may fail in this behaviour
    offered,         \* the plans callers submit in this behaviour
    job_cap,         \* the number of jobs callers create in this behaviour
    rows,            \* storage: job id -> number of result rows of the job
    site_rows        \* the results a successful scrape returns in this behaviour

jmVars == <<stored, plan, active_jobs, job_queue, mgr_lock, scraping, pc,
            engine_invoked, previewed, cancel_called, faults, offered, job_cap,
            rows, site_rows>>

VARIABLES
    e_cfg,           \* ScrapingConfig of the engine (max_concurrent_requests)
    e_plan,          \* the plan passed to the engine call
    e_robots,        \* the rules of the target domain's robots.txt
    e_op,            \* the engine call in progress: "none", "execute", "preview"
    e_pc,            \* position inside the engine call
    e_urls,          \* execute_scraping: urls (plan.get_all_urls())
    e_next,          \* execute_scraping: index of the next url of the for loop
    permits,         \* available permits of ScrapingEngine.semaphore
    task,            \* per url: state of its scrape_single_url future
    fetched          \* paths of the pages requested from the target site

VARIABLES
    e_recorded,      \* the status start_job recorded after the engine call
    e_rows,          \* the result rows execute_scraping_job stored
    e_results        \* the list the engine call returned

\* what start_job does with the engine's result
engJob == <<e_recorded, e_rows, e_results>>

engVars == <<e_cfg, e_plan, e_robots, e_op, e_pc, e_urls, e_next, permits,
             task, fetched, engJob>>

VARIABLES
    clock,           \* the time, in milliseconds (Instant::now())
    domain_limits,   \* RateLimiter.domain_limits: domain -> DomainLimiter
    r_pc,            \* per caller: position inside wait_for_domain
    r_domain,        \* per caller: the domain argument
    r_now,           \* per caller: the local "now" of its call
    r_wake,          \* per caller: the instant its sleep ends
    r_grant          \* per caller: the instant wait_for_domain returned

VARIABLES
    cur_job,         \* the job whose engine (ScrapingEngine::new) is in use
    r_job            \* per caller: the job whose engine it called (0: none)

rateVars == <<clock, domain_limits, r_pc, r_domain, r_now, r_wake, r_grant,
              cur_job, r_job>>

VARIABLES
    rb_rules,        \* RobotsRules.rules of the lookup
    rb_agent,        \* the user_agent argument of the lookup
    rb_path,         \* url.path() of the url argument
    rb_pc,           \* position of the lookup: "absent", "asked", "answered"
    rb_answer        \* the value check_url_allowed returned

robVars == <<rb_rules, rb_agent, rb_path, rb_pc, rb_answer>>

VARIABLES
    x_fields,        \* extract_items: plan.rules.fields
    x_filters,       \* extract_items: plan.rules.filters
    x_doc,           \* extract_items: the elements the item selector selects
    x_pc,            \* position of the call: "absent", "called", "done"
    x_items          \* the items extract_items returned

extVars == <<x_fields, x_filters, x_doc, x_pc, x_items>>

VARIABLES
    h_cfg,           \* HttpClient: config.max_retries
    h_pc,            \* position of scrape_with_http and of the get it calls
    h_attempt,       \* get: the loop variable "attempt"
    h_log,           \* the outcome of every make_request of the call
    h_ret,           \* what get returned
    h_parsed,        \* scrape_with_http parsed the response body as a page
    h_url            \* what scrape_with_http returned for the url

httpVars == <<h_cfg, h_pc, h_attempt, h_log, h_ret, h_parsed, h_url>>

VARIABLES
    c_clock,         \* chrono::Utc::now(), in units of 1/TicksPerHour hour
    c_site,          \* the robots.txt the site serves now
    c_cache,         \* RobotsChecker.cache for one domain: NoEntry or an entry
    c_pc,            \* position of each caller of get_robots_rules
    c_ans            \* what get_robots_rules last returned to each caller

cacheVars == <<c_clock, c_site, c_cache, c_pc, c_ans>>

VARIABLES
    v_plan,          \* validate_and_preview: the plan passed as dsl
    v_pc,            \* position of the call
    v_net            \* the call has made a network request

valVars == <<v_plan, v_pc, v_net>>

VARIABLES
    w_auto,          \* execute_complete_workflow: auto_approve
    w_pc,            \* position of the call
    w_stage,         \* WorkflowExecution.stage
    w_errors,        \* WorkflowExecution.errors.len()
    w_final,         \* WorkflowExecution.final_status
    w_attempts,      \* monitor_job_completion: attempts
    w_status,        \* the status storage holds for the workflow's job
    w_success        \* WorkflowResult.success

wfVars == <<w_auto, w_pc, w_stage, w_errors, w_final, w_attempts, w_status,
            w_success>>

\* the state of the components modelled one call at a time
auxVars == <<extVars, httpVars, cacheVars, valVars, wfVars>>

\* the state of the facade, the manager, the engine, the rate limiter and
\* the robots lookup
coreVars == <<jmVars, engVars, rateVars, robVars>>

vars == <<coreVars, auxVars>>

\* what the extract_items action leaves alone
extFrame == <<coreVars, httpVars, cacheVars, valVars, wfVars>>

\* what the actions of scrape_with_http leave alone
httpFrame == <<coreVars, extVars, cacheVars, valVars, wfVars>>

\* what the actions of get_robots_rules leave alone
cacheFrame == <<coreVars, extVars, httpVars, valVars, wfVars>>

\* what the actions of validate_and_preview leave alone
valFrame == <<coreVars, extVars, httpVars, cacheVars, wfVars>>

\* what the actions of execute_complete_workflow leave alone
wfFrame == <<coreVars, extVars, httpVars, cacheVars, valVars>>

\* what the facade and manager actions leave alone
jmFrame == <<faults, offered, job_cap, site_rows, engVars, rateVars, robVars,
             auxVars>>

\* what the engine actions leave alone
engFrame == <<jmVars, rateVars, robVars, auxVars>>


\* outcomes of one storage call
StorageOutcomes == IF faults THEN {TRUE, FALSE} ELSE {TRUE}

\* JobHandle.status: set to Running in start_job and never assigned again
HandleStatus(j) == "Running"

QueuedIds == {job_queue[i].job_id : i \in 1..Len(job_queue)}

\* Vec::insert(pos, e) with a 0-based position
InsertAt(q, pos, e) == SubSeq(q, 1, pos) \o <<e>> \o SubSeq(q, pos + 1, Len(q))

\* a removal that leaves the vector as it is
RemoveAt_Keep(q, pos) == q

\* Vec::remove(pos) with a 0-based position
RemoveAt(q, pos) == SubSeq(q, 1, pos) \o SubSeq(q, pos + 2, Len(q))

\* binary_search_by(|job| job.priority.cmp(&new.priority).reverse())
\*     .unwrap_or_else(|pos| pos)
\* on a queue kept in descending priority: Ok(i) for some element of equal
\* priority (which one is unspecified), else Err(insertion point).
InsertPositions(q, prio) ==
    IF \E i \in 1..Len(q) : q[i].priority = prio
    THEN {i - 1 : i \in {k \in 1..Len(q) : q[k].priority = prio}}
    ELSE {Cardinality({k \in 1..Len(q) : q[k].priority > prio})}

\* the next unused job id (Uuid::new_v4)
FreshId(j) ==
    /\ j <= job_cap
    /\ pc[j] = "none"
    /\ \A k \in JobIds : k < j => pc[k] # "none"

JMInit ==
    /\ stored = [j \in JobIds |-> "None"]
    /\ plan = [j \in JobIds |-> NoPlan]
    /\ active_jobs = {}
    /\ job_queue = <<>>
    /\ mgr_lock = "free"
    /\ scraping = NoJob
    /\ pc = [j \in JobIds |-> "none"]
    /\ engine_invoked = {}
    /\ previewed = {}
    /\ cancel_called = {}
    /\ rows = [j \in JobIds |-> 0]

\* an extract_items that receives no call
ExtractAbsent ==
    /\ x_fields = <<>>
    /\ x_filters = <<>>
    /\ x_doc = <<>>
    /\ x_pc = "absent"
    /\ x_items = <<>>

\* get has not returned
NotReturned == [kind |-> "none", status |-> 0]

\* an http client that receives no call
HttpAbsent ==
    /\ h_cfg = [max_retries |-> default_max_retries]
    /\ h_pc = "absent"
    /\ h_attempt = 1
    /\ h_log = <<>>
    /\ h_ret = NotReturned
    /\ h_parsed = FALSE
    /\ h_url = "none"

\* cache.get(domain) = None
NoEntry == [rules |-> 0, cached_at |-> -1]

\* get_robots_rules has returned nothing yet
NoAnswer == [rules |-> 0, source |-> "none", age |-> 0]

CacheCallers == {1, 2}

\* a robots cache that receives no call
CacheAbsent ==
    /\ c_clock = 0
    /\ c_site = 1
    /\ c_cache = NoEntry
    /\ c_pc = [c \in CacheCallers |-> "absent"]
    /\ c_ans = [c \in CacheCallers |-> NoAnswer]

\* Option::None and Option::Some(value)
OptNone(empty) == [some |-> FALSE, value |-> empty]
OptSome(value) == [some |-> TRUE, value |-> value]

\* a validator that receives no call
ValidatorAbsent ==
    /\ v_plan = [item_selector |-> "", fields |-> <<>>,
                 filters |-> OptNone(<<>>), sort_by |-> OptNone(""),
                 dedupe_keys |-> OptNone(<<>>)]
    /\ v_pc = "absent"
    /\ v_net = FALSE

\* an orchestrator that receives no call
WorkflowAbsent ==
    /\ w_auto = FALSE
    /\ w_pc = "absent"
    /\ w_stage = "NLProcessing"
    /\ w_errors = 0
    /\ w_final = "None"
    /\ w_attempts = 0
    /\ w_status = "None"
    /\ w_success = FALSE

AuxAbsent ==
    /\ ExtractAbsent
    /\ HttpAbsent
    /\ CacheAbsent
    /\ ValidatorAbsent
    /\ WorkflowAbsent

\* a rate limiter that receives no call
RateAbsent ==
    /\ clock = 0
    /\ domain_limits = [d \in Domains |-> NoLimiter]
    /\ r_pc = [c \in Callers |-> "absent"]
    /\ r_domain = [c \in Callers |-> "a.example.com"]
    /\ r_now = [c \in Callers |-> 0]
    /\ r_wake = [c \in Callers |-> 0]
    /\ r_grant = [c \in Callers |-> NotGranted]
    /\ cur_job = 1
    /\ r_job = [c \in Callers |-> 0]

\* a robots checker that receives no lookup
RobotsAbsent ==
    /\ rb_rules = <<>>
    /\ rb_agent = <<"*">>
    /\ rb_path = <<"/">>
    /\ rb_pc = "absent"
    /\ rb_answer = TRUE

\* an engine that receives no call
EngineAbsent ==
    /\ e_cfg = [max_concurrent_requests |-> default_max_concurrent_requests]
    /\ e_plan = [respect_robots_txt |-> TRUE, start_urls |-> <<>>,
                 url_patterns |-> <<>>, max_pages |-> NoMaxPages,
                 limit |-> NoLimit]
    /\ e_robots = <<>>
    /\ e_op = "none"
    /\ e_pc = "absent"
    /\ e_recorded = "None"
    /\ e_rows = 0
    /\ e_results = <<>>
    /\ e_urls = <<>>
    /\ e_next = 1
    /\ permits = 0
    /\ task = <<>>
    /\ fetched = {}

\* the job manager under well-formed plans and a working storage
Init ==
    /\ JMInit
    /\ faults = FALSE
    /\ offered = {GoodPlan}
    /\ job_cap = MaxJobs
    /\ site_rows \in {0, MaxRows}
    /\ AuxAbsent
    /\ EngineAbsent
    /\ RateAbsent
    /\ RobotsAbsent

\* the facade and the manager over a storage whose calls can fail
InitFaulty ==
    /\ JMInit
    /\ faults = TRUE
    /\ offered = {GoodPlan}
    /\ job_cap = FaultyJobs
    /\ site_rows = 1
    /\ AuxAbsent
    /\ EngineAbsent
    /\ RateAbsent
    /\ RobotsAbsent

\* the facade under every kind of plan
InitFacade ==
    /\ JMInit
    /\ faults = FALSE
    /\ offered = Plans
    /\ job_cap = FacadeJobs
    /\ site_rows = 1
    /\ AuxAbsent
    /\ EngineAbsent
    /\ RateAbsent
    /\ RobotsAbsent

(***************************************************************************)
(* WinScrapeStudio::validate_and_preview: structural validation, then      *)
(* security validation, then the engine's preview.                         *)
(***************************************************************************)
ValidateAndPreview(p) ==
    /\ validate(p)
    /\ validate_dsl(p)
    /\ previewed' = previewed \cup {p}
    /\ UNCHANGED <<stored, plan, active_jobs, job_queue, mgr_lock, scraping,
                   pc, engine_invoked, cancel_called, rows, jmFrame>>

(***************************************************************************)
(* WinScrapeStudio::execute_scraping up to the acquisition of the manager  *)
(* lock: a fresh id, then storage.create_job with status Running.          *)
(***************************************************************************)
CreateJob(j, p, ok) ==
    /\ FreshId(j)
    /\ IF ok
       THEN /\ stored' = [stored EXCEPT ![j] = "Running"]
            /\ plan' = [plan EXCEPT ![j] = p]
            /\ pc' = [pc EXCEPT ![j] = "created"]
       ELSE /\ pc' = [pc EXCEPT ![j] = "returned_err"]
            /\ UNCHANGED <<stored, plan>>
    /\ UNCHANGED <<active_jobs, job_queue, mgr_lock, scraping,
                   engine_invoked, previewed, cancel_called, rows, jmFrame>>

ExecuteScraping(j, p) == \E ok \in StorageOutcomes : CreateJob(j, p, ok)

\* WinScrapeStudio::rerun_job: the stored plan of an existing job is
\* deserialized and passed to execute_scraping
RerunJob(old, j) ==
    /\ stored[old] # "None"
    /\ \E ok \in StorageOutcomes : CreateJob(j, plan[old], ok)

\* a manager whose operations do not exclude one another
manager_free_Always == TRUE

\* self.job_manager.write().await and "&mut self": an operation of the
\* manager starts only when no other holds it
manager_free == mgr_lock = "free"

\* the capacity test with an off-by-one comparison
AtCapacity_OffByOne(act) == Cardinality(act) > max_concurrent_jobs

\* execute_job: "if self.active_jobs.len() >= self.max_concurrent_jobs"
AtCapacity(act) == Cardinality(act) >= max_concurrent_jobs

\* try_start_next_job: "self.active_jobs.len() < self.max_concurrent_jobs
\*                      && !self.job_queue.is_empty()"
CanStartNext(act, q) == Cardinality(act) < max_concurrent_jobs /\ q # <<>>

(***************************************************************************)
(* JobManager::start_job up to the call of execute_scraping_job: the       *)
(* handle is inserted, Running is recorded, and the scrape is awaited in   *)
(* place, inside the caller's operation op, which keeps the write lock.    *)
(* act and st are the running set and the storage as the caller left them. *)
(***************************************************************************)
StartJob(j, op, act, st, ok) ==
    /\ active_jobs' = act \cup {j}
    /\ IF ok
       THEN /\ stored' = [st EXCEPT ![j] = "Running"]
            /\ scraping' = j
            /\ mgr_lock' = op
            /\ engine_invoked' = engine_invoked \cup {j}
       ELSE /\ stored' = st
            /\ scraping' = NoJob
            /\ mgr_lock' = "free"
            /\ UNCHANGED engine_invoked

\* queue_job that leaves the stored status alone
QueueJob_NoStatus(j, priority, ok) ==
    /\ \E pos \in InsertPositions(job_queue, priority) :
          job_queue' = InsertAt(job_queue, pos,
                                [job_id |-> j, priority |-> priority])
    /\ stored' = stored
    /\ pc' = [pc EXCEPT ![j] = IF ok THEN "returned_ok" ELSE "returned_err"]
    /\ UNCHANGED <<active_jobs, mgr_lock, scraping, engine_invoked>>

\* JobManager::queue_job(job_id, dsl, priority)
QueueJob(j, priority, ok) ==
    /\ \E pos \in InsertPositions(job_queue, priority) :
          job_queue' = InsertAt(job_queue, pos,
                                [job_id |-> j, priority |-> priority])
    /\ stored' = IF ok THEN [stored EXCEPT ![j] = "Queued"] ELSE stored
    /\ pc' = [pc EXCEPT ![j] = IF ok THEN "returned_ok" ELSE "returned_err"]
    /\ UNCHANGED <<active_jobs, mgr_lock, scraping, engine_invoked>>

(***************************************************************************)
(* WinScrapeStudio::execute_scraping from "job_manager.write().await" on:  *)
(* JobManager::execute_job, which queues the job or starts it.             *)
(***************************************************************************)
ExecuteJob(j) ==
    /\ pc[j] = "created"
    /\ manager_free
    /\ \E ok \in StorageOutcomes :
          IF AtCapacity(active_jobs)
          THEN QueueJob(j, Normal, ok)
          ELSE /\ StartJob(j, "execute", active_jobs, stored, ok)
               /\ pc' = [pc EXCEPT ![j] = IF ok THEN "in_manager" ELSE "returned_err"]
               /\ UNCHANGED job_queue
    /\ UNCHANGED <<plan, previewed, cancel_called, rows, jmFrame>>

\* start_job, "match result": the status recorded for the engine's result
FinishStatus(result) == IF result = "Ok" THEN "Completed" ELSE "Failed"

\* execute_scraping_job, "Store results": one row per result of an Ok
\* scrape, none for an Err scrape
stored_rows(result) == IF result = "Ok" THEN site_rows ELSE 0

(***************************************************************************)
(* The awaited execute_scraping_job returns inside start_job: the result   *)
(* is recorded (a failed update is only logged), start_job returns Ok, the *)
(* enclosing operation returns and its write lock is dropped.              *)
(***************************************************************************)
FinishScrape(result, ok) ==
    /\ scraping # NoJob
    /\ rows' = [rows EXCEPT ![scraping] = stored_rows(result)]
    /\ stored' = IF ok THEN [stored EXCEPT ![scraping] = FinishStatus(result)]
                 ELSE stored
    /\ pc' = IF mgr_lock = "execute"
             THEN [pc EXCEPT ![scraping] = "returned_ok"]
             ELSE pc
    /\ scraping' = NoJob
    /\ mgr_lock' = "free"
    /\ UNCHANGED <<plan, active_jobs, job_queue, engine_invoked, previewed,
                   cancel_called, jmFrame>>

ScrapeReturns ==
    \E result \in {"Ok", "Err"} : \E ok \in StorageOutcomes :
        FinishScrape(result, ok)

\* cancel_job without its status update
RecordCancel_Skipped(st, j) == st

\* cancel_job, active branch: update_job_status(job_id, JobStatus::Cancelled)
RecordCancel(st, j) == [st EXCEPT ![j] = "Cancelled"]

(***************************************************************************)
(* JobManager::cancel_job(job_id).  It needs &mut self, so it runs only    *)
(* when no other operation holds the manager.  The receiver of the         *)
(* handle's channel lives only during the awaited scrape, so the send      *)
(* fails and is logged.                                                    *)
(***************************************************************************)
CancelActive(j, ok, ok2) ==
    /\ j \in active_jobs
    /\ cancel_called' = cancel_called \cup {j}
    /\ IF ~ok
       THEN UNCHANGED <<stored, active_jobs, job_queue, mgr_lock, scraping,
                        engine_invoked>>
       ELSE IF CanStartNext(active_jobs \ {j}, job_queue)
            THEN /\ StartJob(Head(job_queue).job_id, "cancel",
                             active_jobs \ {j}, RecordCancel(stored, j), ok2)
                 /\ job_queue' = Tail(job_queue)
            ELSE /\ stored' = RecordCancel(stored, j)
                 /\ active_jobs' = active_jobs \ {j}
                 /\ UNCHANGED <<job_queue, mgr_lock, scraping, engine_invoked>>

CancelQueued(j, ok) ==
    /\ j \notin active_jobs
    /\ j \in QueuedIds
    /\ LET pos == CHOOSE i \in 1..Len(job_queue) :
                     /\ job_queue[i].job_id = j
                     /\ \A k \in 1..(i - 1) : job_queue[k].job_id # j
       IN  job_queue' = RemoveAt(job_queue, pos - 1)
    /\ stored' = IF ok THEN [stored EXCEPT ![j] = "Cancelled"] ELSE stored
    /\ UNCHANGED <<active_jobs, mgr_lock, scraping, engine_invoked, cancel_called>>

CancelJob(j) ==
    /\ manager_free
    /\ pc[j] # "none"
    /\ \E ok \in StorageOutcomes, ok2 \in StorageOutcomes :
          \/ CancelActive(j, ok, ok2)
          \/ CancelQueued(j, ok)
    /\ UNCHANGED <<plan, pc, previewed, rows, jmFrame>>

\* JobManager::get_job_statuses: the handle's status for each active job,
\* then Queued for each queued job
get_job_statuses ==
    [j \in active_jobs \cup QueuedIds |->
        IF j \in QueuedIds THEN "Queued" ELSE HandleStatus(j)]

(***************************************************************************)
(* JobManager::cleanup_completed_jobs: every handle whose status is        *)
(* Completed or Failed is removed, each removal followed by                *)
(* try_start_next_job.                                                     *)
(***************************************************************************)
CompletedHandles ==
    {j \in active_jobs : HandleStatus(j) = "Completed" \/ HandleStatus(j) = "Failed"}

CleanupCompletedJobs ==
    /\ manager_free
    /\ IF CompletedHandles = {}
       THEN UNCHANGED <<stored, active_jobs, job_queue, mgr_lock, scraping,
                        engine_invoked>>
       ELSE \E j \in CompletedHandles : \E ok \in StorageOutcomes :
              IF CanStartNext(active_jobs \ {j}, job_queue)
              THEN /\ StartJob(Head(job_queue).job_id, "cleanup",
                               active_jobs \ {j}, stored, ok)
                   /\ job_queue' = Tail(job_queue)
              ELSE /\ active_jobs' = active_jobs \ {j}
                   /\ UNCHANGED <<stored, job_queue, mgr_lock, scraping,
                                  engine_invoked>>
    /\ UNCHANGED <<plan, pc, previewed, cancel_called, rows, jmFrame>>

Next ==
    \/ \E p \in offered : ValidateAndPreview(p)
    \/ \E j \in JobIds, p \in offered : ExecuteScraping(j, p)
    \/ \E old \in JobIds, j \in JobIds : RerunJob(old, j)
    \/ \E j \in JobIds : ExecuteJob(j)
    \/ ScrapeReturns
    \/ \E j \in JobIds : CancelJob(j)
    \/ CleanupCompletedJobs

Spec == Init /\ [][Next]_vars

SpecFacade == InitFacade /\ [][Next]_vars

SpecFaulty == InitFaulty /\ [][Next]_vars

(***************************************************************************)
(* Robots rules (src/scraper/robots.rs).  Strings are sequences of         *)
(* one-character strings.                                                  *)
(***************************************************************************)
UpperToLower == ("B" :> "b") @@ ("O" :> "o") @@ ("T" :> "t")

\* str::to_lowercase
to_lowercase(str) ==
    [i \in 1..Len(str) |->
        IF str[i] \in DOMAIN UpperToLower THEN UpperToLower[str[i]] ELSE str[i]]

\* str::starts_with
starts_with(str, prefix) ==
    /\ Len(prefix) <= Len(str)
    /\ SubSeq(str, 1, Len(prefix)) = prefix

\* str::contains
contains(str, sub) ==
    \E k \in 0..(Len(str) - Len(sub)) : SubSeq(str, k + 1, k + Len(sub)) = sub

\* the regex built by matches_wildcard_pattern, "^" + pattern with "*"
\* replaced by ".*" and "?" by ".", matched against a prefix of the path
RECURSIVE regex_prefix_match(_, _)
regex_prefix_match(path, pattern) ==
    IF pattern = <<>> THEN TRUE
    ELSE IF Head(pattern) = "*"
         THEN \E k \in 0..Len(path) :
                 regex_prefix_match(SubSeq(path, k + 1, Len(path)), Tail(pattern))
         ELSE /\ path # <<>>
              /\ (Head(pattern) = "?" \/ Head(pattern) = Head(path))
              /\ regex_prefix_match(Tail(path), Tail(pattern))

\* RobotsChecker::matches_wildcard_pattern
matches_wildcard_pattern(path, pattern) == regex_prefix_match(path, pattern)

\* RobotsChecker::matches_path
matches_path(path, pattern) ==
    IF pattern = <<"/">> THEN TRUE
    ELSE IF pattern = <<>> THEN FALSE
    ELSE IF \E i \in 1..Len(pattern) : pattern[i] = "*"
         THEN matches_wildcard_pattern(path, pattern)
         ELSE starts_with(path, pattern)

\* RobotsChecker::matches_user_agent
matches_user_agent(pattern, user_agent) ==
    IF pattern = <<"*">> THEN TRUE
    ELSE contains(to_lowercase(user_agent), to_lowercase(pattern))

\* check_url_allowed, "Check rules in order": the first applicable rule
\* with a matching allow pattern allows, with a matching disallow pattern
\* (and no matching allow pattern) disallows
RECURSIVE first_match_allows(_, _)
first_match_allows(path, applicable) ==
    IF applicable = <<>> THEN TRUE
    ELSE LET rule == Head(applicable) IN
         IF \E i \in 1..Len(rule.allow) : matches_path(path, rule.allow[i])
         THEN TRUE
         ELSE IF \E i \in 1..Len(rule.disallow) : matches_path(path, rule.disallow[i])
              THEN FALSE
              ELSE first_match_allows(path, Tail(applicable))

\* check_url_allowed, "Find matching rules for user agent": the rules that
\* match the agent, in file order; the rules of "*" when there is none
applicable_rules(user_agent, rules) ==
    LET specific == SelectSeq(rules,
                        LAMBDA r : matches_user_agent(r.user_agent, user_agent))
    IN  IF specific = <<>>
        THEN SelectSeq(rules, LAMBDA r : r.user_agent = <<"*">>)
        ELSE specific

\* RobotsChecker::check_url_allowed
check_url_allowed(path, user_agent, rules) ==
    first_match_allows(path, applicable_rules(user_agent, rules))

\* RobotsChecker::is_allowed for the target domain, whose robots.txt parses
\* to e_robots
is_allowed(path, user_agent) == check_url_allowed(path, user_agent, e_robots)

(***************************************************************************)
(* Inputs of the engine specification.                                     *)
(***************************************************************************)
ListPath == <<"/", "l">>
PrivatePath == <<"/", "p", "/", "x">>
PublicPath == <<"/", "p", "/", "q", "/", "x">>
StartPaths == {ListPath, PrivatePath, PublicPath}

\* url patterns "https://<domain>/l/{page}" and "https://<domain>/p/{page}",
\* given by the path before "{page}"
PagePatterns == {<<"/", "l", "/">>, <<"/", "p", "/">>}

\* robots.txt:  User-agent: *  /  Disallow: /p/  /  Allow: /p/q/
PrivateRules ==
    << [user_agent |-> <<"*">>,
        disallow |-> << <<"/", "p", "/">> >>,
        allow |-> << <<"/", "p", "/", "q", "/">> >>] >>

\* robots.txt:  User-agent: bot / Disallow: /   then   User-agent: * / Disallow: /p/*
BotRules ==
    << [user_agent |-> <<"b", "o", "t">>,
        disallow |-> << <<"/">> >>,
        allow |-> <<>>],
       [user_agent |-> <<"*">>,
        disallow |-> << <<"/", "p", "/", "*">> >>,
        allow |-> <<>>] >>

\* no robots.txt, one that allows everything, and the two above
RuleSets == {<<>>, PrivateRules, BotRules}

\* sequences over S of length lo..hi
SeqsOf(S, lo, hi) == UNION {[1..n -> S] : n \in lo..hi}

EnginePlans ==
    [respect_robots_txt : BOOLEAN,
     start_urls : SeqsOf(StartPaths, 0, MaxStartUrls),
     url_patterns : SeqsOf(PagePatterns, 0, MaxPatterns),
     max_pages : {NoMaxPages} \cup (1..MaxPages),
     limit : {NoLimit} \cup (1..MaxLimit)]

\* u64::to_string for a page number below 100
Digit == <<"0", "1", "2", "3", "4", "5", "6", "7", "8", "9">>
to_string(n) ==
    IF n < 10 THEN <<Digit[n + 1]>>
    ELSE <<Digit[(n \div 10) + 1], Digit[(n % 10) + 1]>>

\* ScrapePlan::generate_urls_from_pattern for a pattern ending in "{page}"
generate_urls_from_pattern(p, pattern) ==
    LET max_pages == IF p.max_pages = NoMaxPages THEN default_max_pages
                     ELSE p.max_pages
    IN  [page \in 1..max_pages |-> pattern \o to_string(page)]

RECURSIVE concat_all(_)
concat_all(seqs) ==
    IF seqs = <<>> THEN <<>> ELSE Head(seqs) \o concat_all(Tail(seqs))

\* ScrapePlan::get_all_urls: the start urls, then the urls of each pattern
get_all_urls(p) ==
    p.start_urls \o
    concat_all([i \in 1..Len(p.url_patterns) |->
                   generate_urls_from_pattern(p, p.url_patterns[i])])

\* ScrapingEngine::new followed by the choice of the plan and of the site
InitEngine ==
    /\ JMInit
    /\ faults = FALSE
    /\ offered = {}
    /\ job_cap = 0
    /\ site_rows = 0
    /\ AuxAbsent
    /\ e_cfg \in [max_concurrent_requests : 1..MaxPermits]
    /\ e_plan \in EnginePlans
    /\ e_robots \in RuleSets
    /\ e_op = "none"
    /\ e_pc = "idle"
    /\ e_recorded = "None"
    /\ e_rows = 0
    /\ e_results = <<>>
    /\ e_urls = <<>>
    /\ e_next = 1
    /\ permits = e_cfg.max_concurrent_requests
    /\ task = <<>>
    /\ fetched = {}
    /\ RateAbsent
    /\ RobotsAbsent

\* a check that starts at the second start url
robots_checked_urls_SkipFirst(p) ==
    IF p.start_urls = <<>> THEN <<>> ELSE Tail(p.start_urls)

\* check_robots_compliance: the urls the check covers
robots_checked_urls(p) == p.start_urls

\* ScrapingEngine::check_robots_compliance: Ok iff TRUE
check_robots_compliance(p) ==
    \A i \in 1..Len(robots_checked_urls(p)) :
        is_allowed(robots_checked_urls(p)[i], <<"*">>)

(***************************************************************************)
(* ScrapingEngine::execute_scraping up to the for loop: the robots check   *)
(* when the plan asks for it, then plan.get_all_urls().                    *)
(***************************************************************************)
ExecuteScrapingBegin ==
    /\ e_pc = "idle"
    /\ e_op' = "execute"
    /\ IF e_plan.respect_robots_txt /\ ~check_robots_compliance(e_plan)
       THEN /\ e_pc' = "returned_err"
            /\ UNCHANGED e_urls
       ELSE /\ e_pc' = "acquire"
            /\ e_urls' = get_all_urls(e_plan)
    /\ UNCHANGED <<e_cfg, e_plan, e_robots, e_next, permits, task, fetched, engJob, engFrame>>

\* an acquire that never waits
permit_available_Always(n) == TRUE

\* Semaphore::acquire_owned completes only while a permit is left
permit_available(n) == n > 0

(***************************************************************************)
(* One iteration of "for url in urls": acquire_owned().await, then the     *)
(* task future is created holding the permit and pushed, not yet polled.   *)
(* After the last url the loop ends and join_all(tasks) is awaited.        *)
(***************************************************************************)
AcquirePermit ==
    /\ e_pc = "acquire"
    /\ e_next <= Len(e_urls)
    /\ permit_available(permits)
    /\ permits' = permits - 1
    /\ task' = Append(task, "created")
    /\ e_next' = e_next + 1
    /\ UNCHANGED <<e_cfg, e_plan, e_robots, e_op, e_pc, e_urls, fetched, engJob, engFrame>>

LoopEnds ==
    /\ e_pc = "acquire"
    /\ e_next > Len(e_urls)
    /\ e_pc' = "join"
    /\ UNCHANGED <<e_cfg, e_plan, e_robots, e_op, e_urls, e_next, permits,
                   task, fetched, engJob, engFrame>>

(***************************************************************************)
(* scrape_single_url, polled by join_all (or awaited by generate_preview): *)
(* the rate limiter wait and the delay sleep, then the HTTP request, then  *)
(* its result.  The task's permit is dropped when the task completes.      *)
(***************************************************************************)
TaskPolled(i) ==
    /\ e_pc \in {"join", "preview"}
    /\ task[i] = "created"
    /\ task' = [task EXCEPT ![i] = "delayed"]
    /\ UNCHANGED <<e_cfg, e_plan, e_robots, e_op, e_pc, e_urls, e_next,
                   permits, fetched, engJob, engFrame>>

TaskFetches(i) ==
    /\ e_pc \in {"join", "preview"}
    /\ task[i] = "delayed"
    /\ task' = [task EXCEPT ![i] = "fetching"]
    /\ fetched' = fetched \cup {e_urls[i]}
    /\ UNCHANGED <<e_cfg, e_plan, e_robots, e_op, e_pc, e_urls, e_next,
                   permits, engJob, engFrame>>

TaskCompletes(i, result) ==
    /\ e_pc \in {"join", "preview"}
    /\ task[i] = "fetching"
    /\ task' = [task EXCEPT ![i] = result]
    /\ permits' = IF e_op = "execute" THEN permits + 1 ELSE permits
    /\ UNCHANGED <<e_cfg, e_plan, e_robots, e_op, e_pc, e_urls, e_next,
                   fetched, engJob, engFrame>>

\* the items extract_items finds on the page of a url, in document order:
\* every page of the site lists ItemsOnPage items
ItemsOnPage == 2
page_items(url) == [k \in 1..ItemsOnPage |-> [url |-> url, index |-> k]]

\* the result of the task of the i-th url, as join_all returns it
task_result(i) ==
    IF task[i] = "ok" THEN [kind |-> "Ok", data |-> page_items(e_urls[i])]
    ELSE [kind |-> "Err", data |-> <<>>]

\* "for result in results": the data of an Ok result is appended, an Err
\* result is logged
RECURSIVE collect_results(_, _)
collect_results(results, all_results) ==
    IF results = <<>> THEN all_results
    ELSE collect_results(Tail(results),
                         IF Head(results).kind = "Ok"
                         THEN all_results \o Head(results).data
                         ELSE all_results)

\* a truncation that keeps everything
truncate_KeepAll(v, len) == v

\* Vec::truncate
truncate(v, len) == IF Len(v) <= len THEN v ELSE SubSeq(v, 1, len)

\* "if let Some(limit) = plan.output.limit { all_results.truncate(limit) }"
apply_output_limit(p, all_results) ==
    IF p.limit = NoLimit THEN all_results ELSE truncate(all_results, p.limit)

\* a call that fails as soon as one url failed
join_outcome_FailFast(results) ==
    IF \E i \in DOMAIN results : results[i].kind = "Err"
    THEN "returned_err" ELSE "returned_ok"

\* execute_scraping ends with Ok(all_results) whatever the results were
join_outcome(results) == "returned_ok"

\* join_all returns when every task has completed, with the results in the
\* order of the tasks; failed urls are logged and execute_scraping returns Ok
JoinReturns ==
    /\ e_pc = "join"
    /\ \A i \in 1..Len(task) : task[i] \in {"ok", "err"}
    /\ LET results == [i \in 1..Len(task) |-> task_result(i)]
       IN  /\ e_pc' = join_outcome(results)
           /\ e_results' = IF join_outcome(results) = "returned_ok"
                           THEN apply_output_limit(e_plan,
                                    collect_results(results, <<>>))
                           ELSE <<>>
    /\ UNCHANGED <<e_cfg, e_plan, e_robots, e_op, e_urls, e_next, permits,
                   task, fetched, e_recorded, e_rows, engFrame>>

(***************************************************************************)
(* ScrapingEngine::generate_preview: scrape_single_url on the first start  *)
(* url, without the robots check and without the semaphore.                *)
(***************************************************************************)
GeneratePreviewBegin ==
    /\ e_pc = "idle"
    /\ e_op' = "preview"
    /\ IF e_plan.start_urls = <<>>
       THEN /\ e_pc' = "returned_ok"
            /\ UNCHANGED <<e_urls, task>>
       ELSE /\ e_pc' = "preview"
            /\ e_urls' = <<Head(e_plan.start_urls)>>
            /\ task' = <<"created">>
    /\ UNCHANGED <<e_cfg, e_plan, e_robots, e_next, permits, fetched, engJob, engFrame>>

PreviewReturns ==
    /\ e_pc = "preview"
    /\ task[1] \in {"ok", "err"}
    /\ e_pc' = IF task[1] = "ok" THEN "returned_ok" ELSE "returned_err"
    /\ e_results' = IF task[1] = "ok"
                    THEN truncate(page_items(e_urls[1]), preview_limit)
                    ELSE <<>>
    /\ UNCHANGED <<e_cfg, e_plan, e_robots, e_op, e_urls, e_next, permits,
                   task, fetched, e_recorded, e_rows, engFrame>>

(***************************************************************************)
(* execute_scraping_job and start_job after the engine call returned: on   *)
(* Ok every result is stored as a row and the job is recorded Completed,   *)
(* on Err nothing is stored and the job is recorded Failed.  Results come  *)
(* from the pages that were scraped.                                       *)
(***************************************************************************)
StartJobRecords ==
    /\ e_op = "execute"
    /\ e_pc \in {"returned_ok", "returned_err"}
    /\ e_pc' = "recorded"
    /\ e_recorded' = FinishStatus(IF e_pc = "returned_ok" THEN "Ok" ELSE "Err")
    /\ e_rows' = IF e_pc = "returned_ok" THEN Len(e_results) ELSE 0
    /\ UNCHANGED <<e_cfg, e_plan, e_robots, e_op, e_urls, e_next, permits,
                   task, fetched, e_results, engFrame>>

NextEngine ==
    \/ ExecuteScrapingBegin
    \/ StartJobRecords
    \/ AcquirePermit
    \/ LoopEnds
    \/ \E i \in DOMAIN task : TaskPolled(i)
    \/ \E i \in DOMAIN task : TaskFetches(i)
    \/ \E i \in DOMAIN task, result \in {"ok", "err"} : TaskCompletes(i, result)
    \/ JoinReturns
    \/ GeneratePreviewBegin
    \/ PreviewReturns

SpecEngine == InitEngine /\ [][NextEngine]_vars

\* every poll of join_all makes progress on each pending task, and every
\* fetch terminates
SpecEngineFair == SpecEngine /\ WF_vars(NextEngine)

(***************************************************************************)
(* The rate limiter (src/scraper/rate_limiter.rs).  Time advances in steps *)
(* of TickMs; a sleeping caller wakes at the first tick at or after the    *)
(* end of its sleep.                                                       *)
(***************************************************************************)
InitRate ==
    /\ JMInit
    /\ faults = FALSE
    /\ offered = {}
    /\ job_cap = 0
    /\ site_rows = 0
    /\ AuxAbsent
    /\ EngineAbsent
    /\ RobotsAbsent
    /\ clock = 0
    /\ domain_limits = [d \in Domains |-> NoLimiter]
    /\ r_pc = [c \in Callers |-> "idle"]
    /\ r_domain = [c \in Callers |-> "a.example.com"]
    /\ r_now = [c \in Callers |-> 0]
    /\ r_wake = [c \in Callers |-> 0]
    /\ r_grant = [c \in Callers |-> NotGranted]
    /\ cur_job = 1
    /\ r_job = [c \in Callers |-> 0]

\* Instant::duration_since: zero when the other instant is later
duration_since(later, earlier) == IF later > earlier THEN later - earlier ELSE 0

\* wait_for_domain: "limits.entry(domain).or_insert_with(...)"
entry_or_insert(d, now) ==
    IF domain_limits[d] = NoLimiter
    THEN [last_request |-> now - default_delay, request_count |-> 0,
          window_start |-> now, delay |-> default_delay]
    ELSE domain_limits[d]

\* wait_for_domain: "Calculate required delay"
required_delay(limiter, now) ==
    LET time_since_last == duration_since(now, limiter.last_request)
    IN  IF time_since_last < limiter.delay
        THEN limiter.delay - time_since_last
        ELSE 0

\* wait_for_domain: "Update state" and "Reset window if needed"
updated_limiter(limiter, now) ==
    LET reset == duration_since(now, limiter.window_start) > window_ms
    IN  [last_request |-> now + required_delay(limiter, now),
         request_count |-> IF reset THEN 1 ELSE limiter.request_count + 1,
         window_start |-> IF reset THEN now ELSE limiter.window_start,
         delay |-> limiter.delay]

(***************************************************************************)
(* wait_for_domain(domain) up to its sleep: "now" is read, the table is    *)
(* locked and the entry updated (the critical section is bookkeeping       *)
(* only, so the read of "now" and the update fall in the same tick), then  *)
(* either the sleep begins or the call returns at once.                    *)
(***************************************************************************)
WaitForDomain(c, d) ==
    /\ r_pc[c] = "idle"
    /\ LET now == clock
           limiter == entry_or_insert(d, now)
           delay == required_delay(limiter, now)
       IN  /\ r_now' = [r_now EXCEPT ![c] = now]
           /\ domain_limits' = [domain_limits EXCEPT ![d] =
                                    updated_limiter(limiter, now)]
           /\ IF delay > 0
              THEN /\ r_pc' = [r_pc EXCEPT ![c] = "sleeping"]
                   /\ r_wake' = [r_wake EXCEPT ![c] = now + delay]
                   /\ UNCHANGED r_grant
              ELSE /\ r_pc' = [r_pc EXCEPT ![c] = "granted"]
                   /\ r_grant' = [r_grant EXCEPT ![c] = now]
                   /\ UNCHANGED r_wake
    /\ r_domain' = [r_domain EXCEPT ![c] = d]
    /\ r_job' = [r_job EXCEPT ![c] = cur_job]
    /\ UNCHANGED <<clock, cur_job, jmVars, engVars, robVars, auxVars>>

\* tokio::time::sleep(required_delay) ends and wait_for_domain returns
SleepEnds(c) ==
    /\ r_pc[c] = "sleeping"
    /\ clock >= r_wake[c]
    /\ r_pc' = [r_pc EXCEPT ![c] = "granted"]
    /\ r_grant' = [r_grant EXCEPT ![c] = clock]
    /\ UNCHANGED <<clock, domain_limits, r_domain, r_now, r_wake, cur_job, r_job,
                   jmVars, engVars, robVars, auxVars>>

\* time passes; no sleep is overslept by a whole tick
Tick ==
    /\ clock + TickMs <= MaxTime
    /\ \A c \in Callers : r_pc[c] = "sleeping" => clock < r_wake[c]
    /\ clock' = clock + TickMs
    /\ UNCHANGED <<domain_limits, r_pc, r_domain, r_now, r_wake, r_grant,
                   cur_job, r_job, jmVars, engVars, robVars, auxVars>>

NextRate ==
    \/ \E c \in Callers, d \in Domains : WaitForDomain(c, d)
    \/ \E c \in Callers : SleepEnds(c)
    \/ Tick

SpecRate == InitRate /\ [][NextRate]_vars

(***************************************************************************)
(* The rate limiter across jobs.  execute_scraping_job builds a new        *)
(* ScrapingEngine for its job, and ScrapingEngine::new builds a new        *)
(* RateLimiter (and a new RobotsChecker with an empty cache).  The manager *)
(* runs one scrape at a time, so the next job's engine is built when no    *)
(* task of the previous one is still waiting.                              *)
(***************************************************************************)
NewEngine ==
    /\ cur_job < MaxEngines
    /\ \A c \in Callers : r_pc[c] # "sleeping"
    /\ cur_job' = cur_job + 1
    /\ domain_limits' = [d \in Domains |-> NoLimiter]
    /\ UNCHANGED <<clock, r_pc, r_domain, r_now, r_wake, r_grant, r_job,
                   jmVars, engVars, robVars, auxVars>>

NextJobsRate ==
    \/ NextRate
    \/ NewEngine

SpecJobsRate == InitRate /\ [][NextJobsRate]_vars

(***************************************************************************)
(* Properties of the facade and the job manager.                           *)
(***************************************************************************)

\* C1: every plan handed to the scraping engine, by preview, by execute or
\* by the re-run of a stored job, has passed both the structural validation
\* and the DSL security validation.
C1_OnlyValidatedPlansReachEngine ==
    /\ \A p \in previewed : validate(p) /\ validate_dsl(p)
    /\ \A j \in engine_invoked : validate(plan[j]) /\ validate_dsl(plan[j])

\* C3: a job whose run has finished (its terminal status is recorded) is no
\* longer in the running set, so that its slot is free for the head of the
\* queue.
C3_FinishedJobLeavesRunningSet ==
    \A j \in JobIds : stored[j] \in Terminal => j \notin active_jobs

\* C4: the running set never holds more than max_concurrent_jobs jobs; a
\* job submitted while the running set is full is placed in the queue and
\* not in the running set; and a job leaves the queue only by being
\* cancelled or by being started into a running set within the cap.
C4_RunningSetBounded ==
    /\ [](Cardinality(active_jobs) <= max_concurrent_jobs)
    /\ [][\A j \in JobIds :
            /\ (/\ pc[j] = "created"
                /\ pc'[j] # "created"
                /\ Cardinality(active_jobs) >= max_concurrent_jobs)
               => (j \in QueuedIds' /\ j \notin active_jobs')
            /\ (j \in QueuedIds /\ j \notin QueuedIds')
               => \/ stored'[j] = "Cancelled"
                  \/ /\ j \in active_jobs'
                     /\ Cardinality(active_jobs') <= max_concurrent_jobs]_vars

\* C4 witness: the running set is full and a job waits in the queue
C4_Witness ==
    /\ Cardinality(active_jobs) = max_concurrent_jobs
    /\ job_queue # <<>>

\* C5: a recorded status of Completed, Failed or Cancelled is never changed
\* by any later step.
C5_TerminalStatusIsFinal ==
    [][\A j \in JobIds : stored[j] \in Terminal => stored'[j] = stored[j]]_vars

C7_ReturnsBeforeTerminal ==
    [][\A j \in JobIds :
          (pc[j] # "returned_ok" /\ pc'[j] = "returned_ok")
          => stored'[j] \notin Terminal]_vars

\* C8: while a job's scrape is in progress the lock guarding the queue and
\* the running set is free.
C8_LockFreeDuringScrape == scraping # NoJob => mgr_lock = "free"

(***************************************************************************)
(* Properties of the scraping engine.                                      *)
(***************************************************************************)

C10_NoDisallowedFetch ==
    e_plan.respect_robots_txt =>
        \A path \in fetched : is_allowed(path, <<"*">>)

(***************************************************************************)
(* Properties of the rate limiter.                                         *)
(***************************************************************************)

\* C9: any two slots granted for the same domain are at least the domain's
\* minimum spacing apart.
C9_SlotsSpaced ==
    \A c1 \in Callers, c2 \in Callers :
        (/\ c1 # c2
         /\ r_grant[c1] # NotGranted
         /\ r_grant[c2] # NotGranted
         /\ r_domain[c1] = r_domain[c2]
         /\ r_grant[c1] <= r_grant[c2])
        => r_grant[c2] - r_grant[c1] >= default_delay
(***************************************************************************)
(* C11: when the plan asks for the robots check and robots.txt disallows   *)
(* some start url for the agent "*", execute_scraping returns an error     *)
(* without any page having been fetched, and the job is recorded Failed    *)
(* with no result row.                                                     *)
(***************************************************************************)
StartUrlDisallowed ==
    /\ e_plan.respect_robots_txt
    /\ \E i \in DOMAIN e_plan.start_urls :
          ~is_allowed(e_plan.start_urls[i], <<"*">>)

C11_DisallowedStartUrlFailsJob ==
    (e_op = "execute" /\ StartUrlDisallowed) =>
        /\ e_pc \in {"returned_err", "recorded"}
        /\ fetched = {}
        /\ task = <<>>
        /\ e_rows = 0
        /\ e_pc = "recorded" => e_recorded = "Failed"

C11_Witness ==
    /\ e_op = "execute"
    /\ StartUrlDisallowed
    /\ Len(e_plan.start_urls) = 2
    /\ is_allowed(e_plan.start_urls[1], <<"*">>)
    /\ e_pc = "recorded"
    /\ e_recorded = "Failed"

(***************************************************************************)
(* One robots lookup (RobotsChecker::check_url_allowed) on parsed rules.   *)
(* The rule blocks of a robots.txt, in the order parse_robots_txt pushes   *)
(* them, are drawn from:                                                   *)
(*    User-agent: *    Disallow: /p/                                       *)
(*    User-agent: *    Allow: /p/q/                                        *)
(*    User-agent: *    Disallow: /p/   Allow: /p/q/                        *)
(*    User-agent: bot  Disallow: /                                         *)
(*    User-agent: bot  Allow: /p/q/                                        *)
(***************************************************************************)
RuleBlocks ==
    { [user_agent |-> <<"*">>,
       disallow |-> << <<"/", "p", "/">> >>, allow |-> <<>>],
      [user_agent |-> <<"*">>,
       disallow |-> <<>>, allow |-> << <<"/", "p", "/", "q", "/">> >>],
      [user_agent |-> <<"*">>,
       disallow |-> << <<"/", "p", "/">> >>,
       allow |-> << <<"/", "p", "/", "q", "/">> >>],
      [user_agent |-> <<"b", "o", "t">>,
       disallow |-> << <<"/">> >>, allow |-> <<>>],
      [user_agent |-> <<"b", "o", "t">>,
       disallow |-> <<>>, allow |-> << <<"/", "p", "/", "q", "/">> >>] }

\* the agents "*", "MyBot" and "x"
QueryAgents == {<<"*">>, <<"m", "y", "B", "o", "t">>, <<"x">>}

InitRobots ==
    /\ JMInit
    /\ faults = FALSE
    /\ offered = {}
    /\ job_cap = 0
    /\ site_rows = 0
    /\ AuxAbsent
    /\ EngineAbsent
    /\ RateAbsent
    /\ rb_rules \in SeqsOf(RuleBlocks, 0, MaxBlocks)
    /\ rb_agent \in QueryAgents
    /\ rb_path \in StartPaths
    /\ rb_pc = "asked"
    /\ rb_answer = TRUE

\* check_url_allowed returns
CheckUrlAllowed ==
    /\ rb_pc = "asked"
    /\ rb_pc' = "answered"
    /\ rb_answer' = check_url_allowed(rb_path, rb_agent, rb_rules)
    /\ UNCHANGED <<rb_rules, rb_agent, rb_path, jmVars, engVars, rateVars,
                   auxVars>>

NextRobots == CheckUrlAllowed

SpecRobots == InitRobots /\ [][NextRobots]_vars

(***************************************************************************)
(* C12: whenever a rule applicable to the query agent has an allow pattern *)
(* that matches the path, the lookup answers "allowed", whatever disallow  *)
(* patterns match and in whatever order the rule blocks stand.             *)
(***************************************************************************)
SomeApplicableAllowMatches ==
    LET applicable == applicable_rules(rb_agent, rb_rules)
    IN  \E k \in DOMAIN applicable :
           \E i \in DOMAIN applicable[k].allow :
              matches_path(rb_path, applicable[k].allow[i])

C12_AllowWinsOverDisallow ==
    (rb_pc = "answered" /\ SomeApplicableAllowMatches) => rb_answer = TRUE

(***************************************************************************)
(* C13: the rules a lookup applies are those whose user-agent is contained *)
(* in the query agent, case-insensitively; the rules of "*" are applied    *)
(* only when there is no such rule; with no rule to apply the url is       *)
(* allowed.                                                                *)
(***************************************************************************)
specifically_matching(user_agent, rules) ==
    SelectSeq(rules, LAMBDA r :
        contains(to_lowercase(user_agent), to_lowercase(r.user_agent)))

wildcard_fallback(user_agent, rules) ==
    IF specifically_matching(user_agent, rules) # <<>>
    THEN specifically_matching(user_agent, rules)
    ELSE SelectSeq(rules, LAMBDA r : r.user_agent = <<"*">>)

C13_WildcardOnlyAsFallback ==
    rb_pc = "answered" =>
        rb_answer
          = first_match_allows(rb_path, wildcard_fallback(rb_agent, rb_rules))

(***************************************************************************)
(* C14: during one execute_scraping call the number of page fetches in     *)
(* flight never exceeds max_concurrent_requests.                           *)
(***************************************************************************)
InFlight == {i \in DOMAIN task : task[i] = "fetching"}

C14_FetchesWithinLimit ==
    e_op = "execute" => Cardinality(InFlight) <= e_cfg.max_concurrent_requests

C14_Witness ==
    /\ e_op = "execute"
    /\ e_cfg.max_concurrent_requests >= 2
    /\ Cardinality(InFlight) = e_cfg.max_concurrent_requests

(***************************************************************************)
(* C15: execute_job with fewer than max_concurrent_jobs jobs in the        *)
(* running set records the job Running and invokes the engine for it, and  *)
(* the job is not queued; otherwise the job is put in the queue and        *)
(* recorded Queued, and that call invokes no engine.  A job is recorded    *)
(* Queued by no other step.                                                *)
(***************************************************************************)
C15_ExecuteJobStartsOrQueues ==
    [][\A j \in JobIds :
          /\ (pc[j] = "created" /\ pc'[j] # "created") =>
                IF Cardinality(active_jobs) < max_concurrent_jobs
                THEN /\ stored'[j] = "Running"
                     /\ j \in active_jobs'
                     /\ j \in engine_invoked'
                     /\ scraping' = j
                     /\ j \notin QueuedIds'
                ELSE /\ j \in QueuedIds'
                     /\ stored'[j] = "Queued"
                     /\ engine_invoked' = engine_invoked
                     /\ scraping' = NoJob
          /\ (stored'[j] = "Queued" /\ stored[j] # "Queued") =>
                /\ pc[j] = "created"
                /\ Cardinality(active_jobs) >= max_concurrent_jobs]_vars

\* C15 witness: the running set is full of jobs the engine was invoked
\* for, and a job submitted since is queued, recorded Queued, not started
C15_Witness ==
    /\ Cardinality(active_jobs) = max_concurrent_jobs
    /\ active_jobs \subseteq engine_invoked
    /\ \E j \in QueuedIds :
          /\ stored[j] = "Queued"
          /\ pc[j] = "returned_ok"
          /\ j \notin engine_invoked

(***************************************************************************)
(* C16: the queue is ordered by priority, highest first, and first in      *)
(* first out among equal priorities: a job enters the queue behind every   *)
(* queued job of the same or a higher priority and before every job of a   *)
(* lower one, and the job promoted is the head of the queue.               *)
(***************************************************************************)
QueueIndex(q, j) == CHOOSE i \in 1..Len(q) : q[i].job_id = j

C16_QueueFifoWithinPriority ==
    [][\A j \in JobIds :
          /\ (j \notin QueuedIds /\ j \in QueuedIds') =>
                LET i == QueueIndex(job_queue', j) IN
                \A k \in 1..Len(job_queue') :
                   /\ k < i => job_queue'[k].priority >= job_queue'[i].priority
                   /\ k > i => job_queue'[k].priority < job_queue'[i].priority
          /\ (j \in QueuedIds /\ j \in active_jobs') =>
                j = Head(job_queue).job_id]_vars

(***************************************************************************)
(* C17: a job's recorded status only moves forward: once recorded Running  *)
(* it is never afterwards recorded Queued.                                 *)
(***************************************************************************)
C17_RunningNeverBackToQueued ==
    [][\A j \in JobIds : stored[j] = "Running" => stored'[j] # "Queued"]_vars

(***************************************************************************)
(* C18: cancel_job on a job that is only in the queue removes it from the  *)
(* queue and records it Cancelled, and the engine is never invoked for     *)
(* that job, neither before nor after.  The jobs cancelled from the queue  *)
(* are those recorded Cancelled without a cancel from the running set.     *)
(***************************************************************************)
C18_CancelledQueuedJobNeverRuns ==
    [][\A j \in JobIds :
          /\ (j \in QueuedIds /\ j \notin QueuedIds' /\ j \notin active_jobs') =>
                stored'[j] = "Cancelled"
          /\ (j \in QueuedIds /\ stored[j] # "Cancelled"
                             /\ stored'[j] = "Cancelled") =>
                /\ j \notin QueuedIds'
                /\ j \notin active_jobs'
                /\ j \notin engine_invoked'
          /\ (stored[j] = "Cancelled" /\ j \notin cancel_called) =>
                /\ j \notin QueuedIds
                /\ j \notin engine_invoked
                /\ j \notin engine_invoked'
                /\ stored'[j] = "Cancelled"]_vars

\* C18 witness: a job was cancelled from the queue, and a job submitted
\* after it has since been started
C18_Witness ==
    \E j \in JobIds, k \in JobIds :
        /\ stored[j] = "Cancelled"
        /\ j \notin cancel_called
        /\ j \notin engine_invoked
        /\ k > j
        /\ k \in engine_invoked

C20_StatusesAreCurrent ==
    manager_free =>
        \A j \in JobIds :
            /\ j \in QueuedIds => get_job_statuses[j] = "Queued"
            /\ stored[j] \in Terminal =>
                  /\ j \in DOMAIN get_job_statuses
                  /\ get_job_statuses[j] = stored[j]

(***************************************************************************)
(* C21: the rate-limiter table is one instance shared by all jobs: two     *)
(* fetches to the same domain made by different jobs are spaced by the     *)
(* domain's minimum delay, as two fetches of one job are.                  *)
(***************************************************************************)
C21_SlotsSpacedAcrossJobs ==
    \A c1 \in Callers, c2 \in Callers :
        (/\ r_grant[c1] # NotGranted
         /\ r_grant[c2] # NotGranted
         /\ r_job[c1] # r_job[c2]
         /\ r_domain[c1] = r_domain[c2]
         /\ r_grant[c1] <= r_grant[c2])
        => r_grant[c2] - r_grant[c1] >= default_delay

(***************************************************************************)
(* Item extraction (ScrapingEngine::extract_items, src/scraper/mod.rs).    *)
(* An element of the document is given by what extract_field_value yields  *)
(* on it for each field: Ok(Some(text)), Ok(None) or Err.  A JSON value is *)
(* a string with its text, or a number.                                    *)
(***************************************************************************)
\* a facade, a manager, an engine, a rate limiter and a robots checker that
\* receive no call
CoreAbsent ==
    /\ JMInit
    /\ faults = FALSE
    /\ offered = {}
    /\ job_cap = 0
    /\ site_rows = 0
    /\ EngineAbsent
    /\ RateAbsent
    /\ RobotsAbsent

Some(text) == [kind |-> "some", text |-> text]
None == [kind |-> "none", text |-> <<>>]
Err == [kind |-> "err", text |-> <<>>]

String(text) == [type |-> "string", text |-> text]
Number == [type |-> "number", text |-> <<>>]

\* the elements: a title "a" or "b", missing, or failing to extract; a
\* price "a" or missing
ElementKinds ==
    [title : {Some(<<"a">>), Some(<<"b">>), None, Err},
     price : {Some(<<"a">>), None}]

\* the plan's fields, title and price, each required or not
FieldLists ==
    {<<[name |-> "title", required |-> r1],
       [name |-> "price", required |-> r2]>> : r1 \in BOOLEAN, r2 \in BOOLEAN}

\* the filters: title equals "a", title not_equals "a", price not_empty,
\* _status_code not_equals "a"
FilterKinds ==
    { [field |-> "title",
       condition |-> [type |-> "equals", value |-> <<"a">>, n |-> 0]],
      [field |-> "title",
       condition |-> [type |-> "not_equals", value |-> <<"a">>, n |-> 0]],
      [field |-> "price",
       condition |-> [type |-> "not_empty", value |-> <<>>, n |-> 0]],
      [field |-> "_status_code",
       condition |-> [type |-> "not_equals", value |-> <<"a">>, n |-> 0]] }

\* HashMap::insert
insert(map, key, value) ==
    [k \in DOMAIN map \cup {key} |-> IF k = key THEN value ELSE map[k]]

\* extract_items, "Add metadata"
add_metadata(item_data) ==
    LET m1 == insert(item_data, "_source_url", String(<<"u">>))
        m2 == insert(m1, "_scraped_at", String(<<"t">>))
        m3 == insert(m2, "_method", String(<<"h", "t", "t", "p">>))
        m4 == insert(m3, "_response_time_ms", Number)
    IN  insert(m4, "_status_code", Number)

\* extract_items, "Extract each field": the loop over plan.rules.fields.
\* The "continue" taken for a required field without a value belongs to
\* this loop, so it goes on with the next field.
RECURSIVE extract_fields(_, _, _)
extract_fields(element, fields, item_data) ==
    IF fields = <<>> THEN item_data
    ELSE LET field == Head(fields)
             result == element[field.name]
         IN  IF result.kind = "some"
             THEN extract_fields(element, Tail(fields),
                      insert(item_data, field.name, String(result.text)))
             ELSE extract_fields(element, Tail(fields), item_data)

\* str::trim().is_empty()
trim_is_empty(text) == \A i \in DOMAIN text : text[i] = " "

\* ScrapingEngine::check_filter_condition (regex conditions are not among
\* the filters drawn)
check_filter_condition(value, condition) ==
    LET is_str == value.type = "string"
        text == value.text
    IN  CASE condition.type = "contains" ->
                 is_str /\ contains(text, condition.value)
          [] condition.type = "not_contains" ->
                 is_str => ~contains(text, condition.value)
          [] condition.type = "equals" ->
                 is_str /\ text = condition.value
          [] condition.type = "not_equals" ->
                 is_str => text # condition.value
          [] condition.type = "length_min" ->
                 is_str /\ Len(text) >= condition.n
          [] condition.type = "length_max" ->
                 is_str /\ Len(text) <= condition.n
          [] condition.type = "not_empty" ->
                 IF is_str THEN ~trim_is_empty(text) ELSE TRUE

\* the filter loop with a missing field passing
RECURSIVE passes_filters_MissingPasses(_, _)
passes_filters_MissingPasses(item, filters) ==
    IF filters = <<>> THEN TRUE
    ELSE LET filter == Head(filters) IN
         IF filter.field \in DOMAIN item
         THEN IF ~check_filter_condition(item[filter.field], filter.condition)
              THEN FALSE
              ELSE passes_filters_MissingPasses(item, Tail(filters))
         ELSE passes_filters_MissingPasses(item, Tail(filters))

\* ScrapingEngine::passes_filters
RECURSIVE passes_filters(_, _)
passes_filters(item, filters) ==
    IF filters = <<>> THEN TRUE
    ELSE LET filter == Head(filters) IN
         IF filter.field \in DOMAIN item
         THEN IF ~check_filter_condition(item[filter.field], filter.condition)
              THEN FALSE
              ELSE passes_filters(item, Tail(filters))
         ELSE FALSE

\* extract_items, the body of "for element in document.select(..)"
item_of(element, fields) == add_metadata(extract_fields(element, fields, <<>>))

\* ScrapingEngine::extract_items
RECURSIVE extract_items(_, _, _)
extract_items(document, fields, filters) ==
    IF document = <<>> THEN <<>>
    ELSE LET item_data == item_of(Head(document), fields)
             rest == extract_items(Tail(document), fields, filters)
         IN  IF passes_filters(item_data, filters)
             THEN <<item_data>> \o rest
             ELSE rest

InitExtract ==
    /\ CoreAbsent
    /\ HttpAbsent
    /\ CacheAbsent
    /\ ValidatorAbsent
    /\ WorkflowAbsent
    /\ x_fields \in FieldLists
    /\ x_filters \in SeqsOf(FilterKinds, 0, MaxFilters)
    /\ x_doc \in SeqsOf(ElementKinds, 0, MaxElements)
    /\ x_pc = "called"
    /\ x_items = <<>>

\* extract_items returns
ExtractItems ==
    /\ x_pc = "called"
    /\ x_pc' = "done"
    /\ x_items' = extract_items(x_doc, x_fields, x_filters)
    /\ UNCHANGED <<x_fields, x_filters, x_doc, extFrame>>

NextExtract == ExtractItems

SpecExtract == InitExtract /\ [][NextExtract]_vars

(***************************************************************************)
(* C22: an item is emitted only if every field declared required yielded   *)
(* a value: every item of the result has every required field.             *)
(***************************************************************************)
C22_RequiredFieldsPresent ==
    x_pc = "done" =>
        \A i \in DOMAIN x_items : \A k \in DOMAIN x_fields :
            x_fields[k].required => x_fields[k].name \in DOMAIN x_items[i]

(***************************************************************************)
(* C27: an extracted item is kept if and only if every filter of the plan  *)
(* passes on it; a filter naming a field the item does not have excludes   *)
(* it.                                                                     *)
(***************************************************************************)
FilterPasses(item, filter) ==
    /\ filter.field \in DOMAIN item
    /\ check_filter_condition(item[filter.field], filter.condition)

EveryFilterPasses(item) ==
    \A k \in DOMAIN x_filters : FilterPasses(item, x_filters[k])

C27_KeptIffEveryFilterPasses ==
    x_pc = "done" =>
        x_items = SelectSeq([i \in DOMAIN x_doc |-> item_of(x_doc[i], x_fields)],
                            EveryFilterPasses)

\* C27 witness: of two elements one is kept; the other passes the first of
\* two filters and is excluded by the second, which names a field it lacks
C27_Witness ==
    /\ x_pc = "done"
    /\ Len(x_doc) = 2
    /\ Len(x_filters) = 2
    /\ Len(x_items) = 1
    /\ \E i \in DOMAIN x_doc :
          LET item == item_of(x_doc[i], x_fields) IN
          /\ FilterPasses(item, x_filters[1])
          /\ x_filters[2].field \notin DOMAIN item


(***************************************************************************)
(* Results of execute_scraping                                             *)
(***************************************************************************)
\* execute_scraping has returned from the join
AfterJoin == e_op = "execute" /\ e_pc \in {"returned_ok", "returned_err", "recorded"} /\ task # <<>>

\* the items of the urls whose task succeeded, in url order
succeeded_items ==
    concat_all([i \in 1..Len(task) |->
                   IF task[i] = "ok" THEN page_items(e_urls[i]) ELSE <<>>])

\* C23: a url whose task failed never aborts execute_scraping or the tasks
\* of the other urls: when a task fails the call stays in the join and no
\* other task changes, and once the join returns the call has returned Ok,
\* every item of its list comes from a url that succeeded, a failed url adds
\* none and, when no limit is set, the list is exactly the items of the urls
\* that succeeded.
C23_UrlFailureIsAbsorbed ==
    /\ [](AfterJoin =>
            /\ e_pc # "returned_err"
            /\ e_recorded # "Failed"
            /\ \A k \in DOMAIN e_results :
                  \E i \in 1..Len(task) :
                      task[i] = "ok" /\ e_results[k].url = e_urls[i]
            /\ Len(e_results) <= Len(succeeded_items)
            /\ e_plan.limit = NoLimit => e_results = succeeded_items)
    /\ [][\A i \in 1..Len(task) :
            (e_op = "execute" /\ task[i] # "err" /\ Len(task') = Len(task)
                /\ task'[i] = "err")
            => /\ e_pc' = e_pc
               /\ \A k \in 1..Len(task) : k # i => task'[k] = task[k]]_vars

\* the call returned Ok although one url failed and another succeeded
C23_Witness ==
    /\ AfterJoin
    /\ e_pc = "returned_ok"
    /\ \E i, k \in 1..Len(task) : task[i] = "err" /\ task[k] = "ok"
    /\ e_results # <<>>

\* C26: the list execute_scraping returns is the concatenation of the item
\* lists of the urls in the order of get_all_urls (start urls, then the urls
\* of the patterns), whatever the order the tasks completed in, cut to its
\* first output.limit items when a limit is set.
C26_ResultsInUrlOrder ==
    AfterJoin =>
        /\ e_urls = e_plan.start_urls \o
                concat_all([i \in 1..Len(e_plan.url_patterns) |->
                    generate_urls_from_pattern(e_plan, e_plan.url_patterns[i])])
        /\ e_results =
              IF e_plan.limit # NoLimit /\ Len(succeeded_items) > e_plan.limit
              THEN [k \in 1..e_plan.limit |-> succeeded_items[k]]
              ELSE succeeded_items

\* a start url and a pattern url both succeeded and the limit cut the list
C26_Witness ==
    /\ AfterJoin
    /\ e_plan.start_urls # <<>>
    /\ e_plan.url_patterns # <<>>
    /\ \A i \in 1..Len(task) : task[i] = "ok"
    /\ e_plan.limit # NoLimit
    /\ Len(e_results) = e_plan.limit
    /\ Len(succeeded_items) > e_plan.limit

\* as C26_Witness with no limit: items of a start url precede a pattern's
C26_WitnessUnlimited ==
    /\ AfterJoin
    /\ e_plan.start_urls # <<>>
    /\ e_plan.url_patterns # <<>>
    /\ \A i \in 1..Len(task) : task[i] = "ok"
    /\ e_plan.limit = NoLimit
    /\ Len(e_results) = ItemsOnPage * Len(e_urls)

(***************************************************************************)
(* ScrapingEngine::scrape_with_http and HttpClient::get for one url        *)
(***************************************************************************)
\* what one make_request gives: a response with a status code, or Err for
\* a timeout or a connection failure
Statuses == {200, 404, 503}

\* Result<Response>: Ok(response) with its status code, or Err
Response(status) == [kind |-> "Ok", status |-> status]
RequestErr == [kind |-> "Err", status |-> 0]

\* StatusCode::is_success, StatusCode::is_server_error
is_success(status) == status >= 200 /\ status <= 299
is_server_error(status) == status >= 500 /\ status <= 599

\* HttpClient::new followed by the call of scrape_with_http
InitHttp ==
    /\ CoreAbsent
    /\ ExtractAbsent
    /\ CacheAbsent
    /\ ValidatorAbsent
    /\ WorkflowAbsent
    /\ h_cfg \in [max_retries : 0..MaxRetries]
    /\ h_pc = "loop"
    /\ h_attempt = 1
    /\ h_log = <<>>
    /\ h_ret = NotReturned
    /\ h_parsed = FALSE
    /\ h_url = "none"

\* get, "return Ok(response); // Return non-success responses for handling
\* upstream"
last_attempt_response(status) == Response(status)

\* one iteration of "for attempt in 1..=self.config.max_retries" whose
\* make_request gives a response
RequestAnswered(status) ==
    /\ h_pc = "loop"
    /\ h_attempt <= h_cfg.max_retries
    /\ h_log' = Append(h_log, Response(status))
    /\ IF is_success(status)
       THEN /\ h_ret' = Response(status)
            /\ h_pc' = "returned"
            /\ UNCHANGED h_attempt
       ELSE IF is_server_error(status) /\ h_attempt < h_cfg.max_retries
       THEN /\ h_attempt' = h_attempt + 1
            /\ UNCHANGED <<h_ret, h_pc>>
       ELSE /\ h_ret' = last_attempt_response(status)
            /\ h_pc' = "returned"
            /\ UNCHANGED h_attempt
    /\ UNCHANGED <<h_cfg, h_parsed, h_url, httpFrame>>

\* one iteration whose make_request fails: the error is kept and, unless
\* this was the last attempt, the call sleeps before the next one
RequestFails ==
    /\ h_pc = "loop"
    /\ h_attempt <= h_cfg.max_retries
    /\ h_log' = Append(h_log, RequestErr)
    /\ IF h_attempt < h_cfg.max_retries
       THEN /\ h_pc' = "sleeping"
            /\ UNCHANGED h_attempt
       ELSE /\ h_attempt' = h_attempt + 1
            /\ UNCHANGED h_pc
    /\ UNCHANGED <<h_cfg, h_ret, h_parsed, h_url, httpFrame>>

\* tokio::time::sleep(delay) ends
RetrySleepEnds ==
    /\ h_pc = "sleeping"
    /\ h_pc' = "loop"
    /\ h_attempt' = h_attempt + 1
    /\ UNCHANGED <<h_cfg, h_log, h_ret, h_parsed, h_url, httpFrame>>

\* the loop ends: Err(last_error or "All retry attempts failed")
RetriesExhausted ==
    /\ h_pc = "loop"
    /\ h_attempt > h_cfg.max_retries
    /\ h_ret' = RequestErr
    /\ h_pc' = "returned"
    /\ UNCHANGED <<h_cfg, h_attempt, h_log, h_parsed, h_url, httpFrame>>

\* scrape_with_http after get: "?" on Err; on a response, of any status,
\* response.text() (which may fail), Html::parse_document and extract_items
\* (which may fail)
ScrapeWithHttpReturns(text_ok, extract_ok) ==
    /\ h_pc = "returned"
    /\ h_pc' = "done"
    /\ IF h_ret.kind = "Err" \/ ~text_ok
       THEN /\ h_url' = "failed"
            /\ UNCHANGED h_parsed
       ELSE /\ h_parsed' = TRUE
            /\ h_url' = IF extract_ok THEN "items" ELSE "failed"
    /\ UNCHANGED <<h_cfg, h_attempt, h_log, h_ret, httpFrame>>

NextHttp ==
    \/ \E status \in Statuses : RequestAnswered(status)
    \/ RequestFails
    \/ RetrySleepEnds
    \/ RetriesExhausted
    \/ \E text_ok, extract_ok \in BOOLEAN : ScrapeWithHttpReturns(text_ok, extract_ok)

SpecHttp == InitHttp /\ [][NextHttp]_vars

\* the last make_request of the call failed: Err or a server error
LastAttemptFailed ==
    /\ h_log # <<>>
    /\ \/ h_log[Len(h_log)].kind = "Err"
       \/ is_server_error(h_log[Len(h_log)].status)

\* C24: get makes at most max_retries attempts for one url, and a url whose
\* last attempt failed, by a timeout, a connection failure or a server
\* error, is returned as a failure by scrape_with_http, its response never
\* parsed as a page.
C24_FailedUrlIsNotParsed ==
    /\ Len(h_log) <= h_cfg.max_retries
    /\ (h_pc = "done" /\ LastAttemptFailed) =>
            (h_url = "failed" /\ ~h_parsed)

(***************************************************************************)
(* The manager over a failing storage                                      *)
(***************************************************************************)
\* C25: a failed update_job_status is never fatal: whenever execute_job
\* acts on a created job it does not return Err, and the job is then in the
\* queue or being scraped, whether or not the status update succeeded.
C25_StatusUpdateFailureNotFatal ==
    [][\A j \in JobIds :
          (pc[j] = "created" /\ pc'[j] # "created") =>
              /\ pc'[j] # "returned_err"
              /\ \/ \E i \in DOMAIN job_queue' : job_queue'[i].job_id = j
                 \/ scraping' = j]_vars

(***************************************************************************)
(* RobotsChecker::get_robots_rules: the cache of parsed rules for one      *)
(* domain.  Time is counted in ticks of 1/TicksPerHour hour; the rules are *)
(* named by the version of the robots.txt they were parsed from, 0 for the *)
(* empty text get_robots_txt gives when the fetch fails.                   *)
(***************************************************************************)
TicksPerHour == 2

\* the steps the clock advances by: 12 hours, or 23.5 hours
ClockSteps == {12 * TicksPerHour, 23 * TicksPerHour + 1}

SiteVersions == {1, 2}

\* chrono::Duration::num_hours: whole hours of a non-negative duration
num_hours(d) == d \div TicksPerHour

\* a freshness test that still trusts an entry in its 25th hour
is_fresh_Within25(cache_age) == num_hours(cache_age) <= 24

\* "if cache_age.num_hours() < 24"
is_fresh(cache_age) == num_hours(cache_age) < 24

\* RobotsChecker::new followed by the first calls
InitCache ==
    /\ CoreAbsent
    /\ ExtractAbsent
    /\ HttpAbsent
    /\ ValidatorAbsent
    /\ WorkflowAbsent
    /\ c_clock = 0
    /\ c_site \in SiteVersions
    /\ c_cache = NoEntry
    /\ c_pc = [c \in CacheCallers |-> "idle"]
    /\ c_ans = [c \in CacheCallers |-> NoAnswer]

\* time passes
ClockAdvances(d) ==
    /\ c_clock + d <= MaxCacheTime
    /\ c_clock' = c_clock + d
    /\ UNCHANGED <<c_site, c_cache, c_pc, c_ans, cacheFrame>>

\* the site publishes another robots.txt
SiteChanges(v) ==
    /\ v # c_site
    /\ c_site' = v
    /\ UNCHANGED <<c_clock, c_cache, c_pc, c_ans, cacheFrame>>

\* get_robots_rules, "Check cache first": under the read lock, an entry
\* that is fresh is returned; otherwise the call goes on to fetch
CheckCache(c) ==
    /\ c_pc[c] = "idle"
    /\ IF c_cache # NoEntry /\ is_fresh(c_clock - c_cache.cached_at)
       THEN /\ c_ans' = [c_ans EXCEPT ![c] =
                            [rules |-> c_cache.rules, source |-> "cache",
                             age |-> c_clock - c_cache.cached_at]]
            /\ UNCHANGED c_pc
       ELSE /\ c_pc' = [c_pc EXCEPT ![c] = "fetching"]
            /\ c_ans' = [c_ans EXCEPT ![c] = NoAnswer]
    /\ UNCHANGED <<c_clock, c_site, c_cache, cacheFrame>>

\* get_robots_txt returns the text (the empty text when the fetch failed),
\* parse_robots_txt stamps the rules with Utc::now(), and the rules
\* replace the entry of the domain and are returned
FetchAndCache(c, fetch_ok) ==
    /\ c_pc[c] = "fetching"
    /\ LET rules == [rules |-> IF fetch_ok THEN c_site ELSE 0,
                     cached_at |-> c_clock]
       IN  /\ c_cache' = rules
           /\ c_ans' = [c_ans EXCEPT ![c] =
                           [rules |-> rules.rules, source |-> "fetch",
                            age |-> 0]]
    /\ c_pc' = [c_pc EXCEPT ![c] = "idle"]
    /\ UNCHANGED <<c_clock, c_site, cacheFrame>>

NextCache ==
    \/ \E d \in ClockSteps : ClockAdvances(d)
    \/ \E v \in SiteVersions : SiteChanges(v)
    \/ \E c \in CacheCallers : CheckCache(c)
    \/ \E c \in CacheCallers, fetch_ok \in BOOLEAN : FetchAndCache(c, fetch_ok)

SpecCache == InitCache /\ [][NextCache]_vars

\* caller c starts a call in this step
Calls(c) == c_pc[c] = "idle" /\ c_ans'[c] # c_ans[c]

\* the cache holds an entry that is 24 hours old or older
EntryStale == c_cache # NoEntry /\ c_clock - c_cache.cached_at >= 24 * TicksPerHour

\* the cache holds an entry younger than 24 hours
EntryYoung == c_cache # NoEntry /\ c_clock - c_cache.cached_at < 24 * TicksPerHour

C28_WitnessYoung ==
    \E c \in CacheCallers :
        /\ c_ans[c].source = "cache"
        /\ c_ans[c].age = 23 * TicksPerHour + 1

(***************************************************************************)
(* DSLValidator::validate, as WinScrapeStudio::validate_and_preview calls  *)
(* it.  The version, the target, the anti-blocking settings and the output *)
(* formats of the plans are valid; the plans differ in the item selector,  *)
(* the fields, the filters, the sort key and the dedupe keys.              *)
(***************************************************************************)
FieldNames == {"title", "price"}

\* a filter: the field it names and the value of its condition
ValFilters == [field : FieldNames, value : {"", "a"}]

ValPlans ==
    [item_selector : {"", ".item"},
     fields : SeqsOf(FieldNames, 0, MaxFields),
     filters : {OptNone(<<>>)} \cup {OptSome(<<f>>) : f \in ValFilters},
     sort_by : {OptNone("")} \cup {OptSome(n) : n \in FieldNames \cup {""}},
     dedupe_keys : {OptNone(<<>>)} \cup
                   {OptSome(k) : k \in SeqsOf(FieldNames, 0, 1)}]

\* the names of the declared fields
field_names(fields) == {fields[i] : i \in DOMAIN fields}

\* validate_rules, "if !field_names.insert(&field.name)"
has_duplicate(fields) ==
    \E i, k \in DOMAIN fields : i < k /\ fields[i] = fields[k]

\* DSLValidator::validate_filter: Ok iff TRUE
validate_filter(filter, names) ==
    /\ filter.field \in names
    /\ filter.value # ""

\* DSLValidator::validate_rules: Ok iff TRUE
validate_rules(p) ==
    /\ p.item_selector # ""
    /\ p.fields # <<>>
    /\ ~has_duplicate(p.fields)
    /\ p.filters.some =>
          \A i \in DOMAIN p.filters.value :
              validate_filter(p.filters.value[i], field_names(p.fields))

\* DSLValidator::validate_output: Ok iff TRUE
validate_output(p) ==
    /\ p.dedupe_keys.some => p.dedupe_keys.value # <<>>
    /\ p.sort_by.some => p.sort_by.value # ""

\* validate_cross_references, filters
filters_known(p) ==
    p.filters.some =>
        \A i \in DOMAIN p.filters.value :
            p.filters.value[i].field \in field_names(p.fields)

\* a check that accepts every sort key
sort_field_known_Any(p) == TRUE

\* validate_cross_references, sort field
sort_field_known(p) ==
    p.sort_by.some => p.sort_by.value \in field_names(p.fields)

\* validate_cross_references, dedupe keys
dedupe_keys_known(p) ==
    p.dedupe_keys.some =>
        \A i \in DOMAIN p.dedupe_keys.value :
            p.dedupe_keys.value[i] \in field_names(p.fields)

\* DSLValidator::validate_cross_references: Ok iff TRUE
validate_cross_references(p) ==
    /\ filters_known(p)
    /\ sort_field_known(p)
    /\ dedupe_keys_known(p)

\* DSLValidator::validate: Ok iff TRUE
validate_plan(p) ==
    /\ validate_rules(p)
    /\ validate_output(p)
    /\ validate_cross_references(p)

InitValidate ==
    /\ CoreAbsent
    /\ ExtractAbsent
    /\ HttpAbsent
    /\ CacheAbsent
    /\ WorkflowAbsent
    /\ v_plan \in ValPlans
    /\ v_pc = "called"
    /\ v_net = FALSE

\* "self.dsl_validator.validate(dsl)?"
ValidateStructure ==
    /\ v_pc = "called"
    /\ v_pc' = IF validate_plan(v_plan) THEN "validated" ELSE "returned_err"
    /\ UNCHANGED <<v_plan, v_net, valFrame>>

\* "self.security_manager.validate_dsl(dsl)?", then generate_preview, which
\* fetches the first start url
SecurityAndPreview(secure) ==
    /\ v_pc = "validated"
    /\ IF secure
       THEN /\ v_pc' = "previewed"
            /\ v_net' = TRUE
       ELSE /\ v_pc' = "returned_err"
            /\ UNCHANGED v_net
    /\ UNCHANGED <<v_plan, valFrame>>

NextValidate ==
    \/ ValidateStructure
    \/ \E secure \in BOOLEAN : SecurityAndPreview(secure)

SpecValidate == InitValidate /\ [][NextValidate]_vars

\* the plan has a filter, a sort key or a dedupe key that names no field
DanglingReference(p) ==
    \/ /\ p.filters.some
       /\ \E i \in DOMAIN p.filters.value :
              \A k \in DOMAIN p.fields : p.fields[k] # p.filters.value[i].field
    \/ /\ p.sort_by.some
       /\ \A k \in DOMAIN p.fields : p.fields[k] # p.sort_by.value
    \/ /\ p.dedupe_keys.some
       /\ \E i \in DOMAIN p.dedupe_keys.value :
              \A k \in DOMAIN p.fields : p.fields[k] # p.dedupe_keys.value[i]

\* C29: for a plan with an empty item selector, with no field, or with a
\* filter, sort key or dedupe key that names an undeclared field, validate
\* returns an error, and the call has made no network request.
C29_MissingElementIsRejected ==
    (/\ v_pc # "called"
     /\ \/ v_plan.item_selector = ""
        \/ v_plan.fields = <<>>
        \/ DanglingReference(v_plan))
    => (v_pc = "returned_err" /\ ~v_net)

\* a plan whose only defect is a sort key that names no field was rejected
C29_Witness ==
    /\ v_pc = "returned_err"
    /\ v_plan.item_selector # ""
    /\ v_plan.fields = <<"title">>
    /\ ~v_plan.filters.some
    /\ ~v_plan.dedupe_keys.some
    /\ v_plan.sort_by = OptSome("price")

(***************************************************************************)
(* Orchestrator::execute_complete_workflow and monitor_job_completion      *)
(***************************************************************************)
\* monitor_job_completion, "let max_attempts = 300"
max_attempts == 300

\* WorkflowExecution::into_result, "let success = ..."
success(errors, stage) == errors = 0 /\ stage \in {"Completed", "Approval"}

\* WorkflowExecution::new followed by the call
InitWorkflow ==
    /\ CoreAbsent
    /\ ExtractAbsent
    /\ HttpAbsent
    /\ CacheAbsent
    /\ ValidatorAbsent
    /\ w_auto \in BOOLEAN
    /\ w_pc = "nl"
    /\ w_stage = "NLProcessing"
    /\ w_errors = 0
    /\ w_final = "None"
    /\ w_attempts = 0
    /\ w_status = "None"
    /\ w_success = FALSE

\* "workflow.add_error(...); return Ok(workflow.into_result())"
FailsAtStage ==
    /\ w_errors' = w_errors + 1
    /\ w_stage' = "Failed"
    /\ w_success' = success(w_errors + 1, "Failed")
    /\ w_pc' = "returned"

\* Stage 1: generate_dsl
WorkflowGenerateDsl(ok) ==
    /\ w_pc = "nl"
    /\ IF ok
       THEN /\ w_pc' = "validation"
            /\ w_stage' = "Validation"
            /\ UNCHANGED <<w_errors, w_success>>
       ELSE FailsAtStage
    /\ UNCHANGED <<w_auto, w_final, w_attempts, w_status, wfFrame>>

\* Stage 2: validate_and_preview, and stage 3: the approval gate, where
\* the call returns its result unless auto_approve is set
WorkflowValidate(ok) ==
    /\ w_pc = "validation"
    /\ IF ~ok
       THEN FailsAtStage
       ELSE IF ~w_auto
       THEN /\ w_stage' = "Approval"
            /\ w_success' = success(w_errors, "Approval")
            /\ w_pc' = "returned"
            /\ UNCHANGED w_errors
       ELSE /\ w_stage' = "Execution"
            /\ w_pc' = "execution"
            /\ UNCHANGED <<w_errors, w_success>>
    /\ UNCHANGED <<w_auto, w_final, w_attempts, w_status, wfFrame>>

\* the statuses a job can have when execute_scraping has returned Ok: it
\* was queued, or it was scraped in place and its result recorded, or the
\* recording failed and the status is still Running
StatusesAfterExecute == {"Queued", "Running", "Completed", "Failed"}

\* Stage 4: execute_scraping
WorkflowExecute(ok, st) ==
    /\ w_pc = "execution"
    /\ IF ok
       THEN /\ w_pc' = "monitoring"
            /\ w_stage' = "Monitoring"
            /\ w_status' = st
            /\ UNCHANGED <<w_errors, w_success>>
       ELSE /\ FailsAtStage
            /\ UNCHANGED w_status
    /\ UNCHANGED <<w_auto, w_final, w_attempts, wfFrame>>

\* the manager, used by other callers, moves the job on while it is polled
JobProgresses(st) ==
    /\ w_pc = "monitoring"
    /\ \/ w_status = "Queued" /\ st \in {"Running", "Cancelled"}
       \/ w_status = "Running" /\ st \in {"Completed", "Failed", "Cancelled"}
    /\ w_status' = st
    /\ UNCHANGED <<w_auto, w_pc, w_stage, w_errors, w_final, w_attempts,
                   w_success, wfFrame>>

\* stage 6 and into_result, after monitor_job_completion returned status
\* with errors errors recorded
Completes(status, errors) ==
    /\ w_errors' = errors
    /\ w_stage' = "Completed"
    /\ w_final' = status
    /\ w_success' = success(errors, "Completed")
    /\ w_pc' = "returned"

\* Stage 5: one iteration of the loop of monitor_job_completion: the sleep,
\* get_job, the match on the status and the timeout test
Poll(get_ok) ==
    /\ w_pc = "monitoring"
    /\ w_attempts' = w_attempts + 1
    /\ IF ~get_ok
       THEN /\ w_pc' = "returned_err"
            /\ UNCHANGED <<w_stage, w_errors, w_final, w_success>>
       ELSE CASE w_status = "Completed" -> Completes("Completed", w_errors)
              [] w_status = "Failed" -> Completes("Failed", w_errors + 1)
              [] w_status = "Cancelled" -> Completes("Cancelled", w_errors)
              [] OTHER ->
                   IF w_attempts + 1 >= max_attempts
                   THEN Completes("Failed", w_errors + 1)
                   ELSE UNCHANGED <<w_pc, w_stage, w_errors, w_final,
                                    w_success>>
    /\ UNCHANGED <<w_auto, w_status, wfFrame>>

NextWorkflow ==
    \/ \E ok \in BOOLEAN : WorkflowGenerateDsl(ok)
    \/ \E ok \in BOOLEAN : WorkflowValidate(ok)
    \/ \E ok \in BOOLEAN, st \in StatusesAfterExecute : WorkflowExecute(ok, st)
    \/ \E st \in {"Running", "Completed", "Failed", "Cancelled"} : JobProgresses(st)
    \/ \E get_ok \in BOOLEAN : Poll(get_ok)

SpecWorkflow == InitWorkflow /\ [][NextWorkflow]_vars

\* C30: a returned WorkflowResult has success = true only when the call
\* stopped at the Approval stage without error or the job's final status
\* is Completed; a job that ended Failed or Cancelled, or whose monitoring
\* timed out, never gives success = true.
C30_SuccessOnlyWhenApprovedOrCompleted ==
    (w_pc = "returned" /\ w_success) =>
        \/ w_stage = "Approval" /\ w_errors = 0 /\ w_final = "None"
        \/ w_final = "Completed"

====
